---- MODULE Spec2Model ----
(***************************************************************************)
(* Model of the expression algebra of cpplatex (src/latex.hpp, namespace   *)
(* latex::math): the node catalogue, the reduction protocol (reduce /      *)
(* solve), rendering (latex) and the global operator overloads.            *)
(* The containers of namespace latex::doc (List, Subsection, Section,      *)
(* Document) are modelled after the expression algebra.                    *)
(*                                                                         *)
(* The library is a set of class templates, so what a call does depends on *)
(* the static types of the operands.  A call whose template instantiation  *)
(* is rejected by the compiler has the outcome "ill_formed"; a call whose  *)
(* behaviour is undefined has the outcome "ub", which the actions turn     *)
(* into a nondeterministic choice.                                         *)
(***************************************************************************)
EXTENDS Integers, Sequences, FiniteSets, TLC

\* expr: the expression the caller holds; op: the last operation applied;
\* out: its outcome; held: the caller's own objects that were passed to
\* constructors (the constructors copy them)
VARIABLES expr, op, out, held

vars == <<expr, op, out, held>>

----------------------------------------------------------------------------
(* Bounds of the model *)

\* native ints offered as terminals are -MaxInt .. MaxInt
MaxInt == 2
\* greatest nesting depth of a constructed tree
MaxDepth == 2
\* greatest number of steps of an AlignedEquation
MaxSteps == 3

\* the range of the native int of the build (32 bit)
INT_MAX == 2147483647
INT_MIN == -INT_MAX - 1

----------------------------------------------------------------------------
(* Values and expression trees.  Every value, terminal or node, is a record *)
(* of one shape: k is the C++ type (the class template's name for a node), *)
(* v an integer payload, s a string payload, kids the operand slots.        *)

Mk(k, v, s, kids) == [k |-> k, v |-> v, s |-> s, kids |-> kids]

\* terminals
IntVal(n) == Mk("int", n, "", <<>>)
\* the double literal h/2 (2.0 is DblVal(4), 2.5 is DblVal(5))
DblVal(h) == Mk("double", h, "lit", <<>>)
\* a double computed by the floating function or operator f from args
DOp(f, args) == Mk("double", 0, f, args)
Str(s)    == Mk("string", 0, s, <<>>)
\* the test suite's opaque arithmetic type CustomType<int>
Custom(n) == Mk("custom", n, "", <<>>)
Void      == Mk("void", 0, "", <<>>)

\* nodes
Number(x)    == Mk("Number", 0, "", <<x>>)
Paren(x)     == Mk("Paren", 0, "", <<x>>)
Fraction(n, d)       == Mk("Fraction", 0, "", <<n, d>>)
Multiplication(l, r) == Mk("Multiplication", 0, "", <<l, r>>)
Addition(l, r)       == Mk("Addition", 0, "", <<l, r>>)
Subtraction(l, r)    == Mk("Subtraction", 0, "", <<l, r>>)
Power(l, r)          == Mk("Power", 0, "", <<l, r>>)
Exponent(r)          == Mk("Exponent", 0, "", <<r>>)
Root(val, base)      == Mk("Root", 0, "", <<val, base>>)
Log(val, base)       == Mk("Log", 0, "", <<val, base>>)
NaturalLog(val)      == Mk("NaturalLog", 0, "", <<val>>)
Equation(label, l, r) == Mk("Equation", 0, label, <<l, r>>)
Variable(name)       == Mk("Variable", 0, name, <<>>)
ValuedVariable(val, name, use_name) ==
    Mk("ValuedVariable", IF use_name THEN 1 ELSE 0, name, <<val>>)
\* the constructor's default argument use_name = true
use_name_default == TRUE
\* ValuedVariable(val, name), the third argument left out
ValuedVariable2(val, name) == ValuedVariable(val, name, use_name_default)
SubscriptedVariable(up, low) == Mk("SubscriptedVariable", 0, "", <<up, low>>)
Sin(val) == Mk("Sin", 0, "", <<val>>)
Cos(val) == Mk("Cos", 0, "", <<val>>)
Tan(val) == Mk("Tan", 0, "", <<val>>)

\* outcomes of a call
Ok(x)     == [st |-> "ok", val |-> x, msg |-> ""]
Throw(m)  == [st |-> "throw", val |-> Void, msg |-> m]
IllFormed == [st |-> "ill_formed", val |-> Void, msg |-> ""]
UB        == [st |-> "ub", val |-> Void, msg |-> ""]
Crash     == [st |-> "crash", val |-> Void, msg |-> ""]
NoOutcome == [st |-> "none", val |-> Void, msg |-> ""]

----------------------------------------------------------------------------
(* The reduction protocol *)

ArithKinds == {"int", "double"}

\* the class templates that declare a solve() member
SolvableKinds ==
    {"Number", "Paren", "Fraction", "Multiplication", "Addition",
     "Subtraction", "Power", "Exponent", "Root", "Log", "NaturalLog",
     "Equation", "Variable", "ValuedVariable", "SubscriptedVariable",
     "Sin", "Cos", "Tan"}

\* can_solve<T>: T().solve() is a valid expression
can_solve(x) == x.k \in SolvableKinds

is_arithmetic(x) == x.k \in ArithKinds

\* the result type of a built-in or CustomType binary operator + - * /
\* ("ill" when overload resolution finds no operator)
ArithType(a, b) ==
    IF a = "int" /\ b = "int" THEN "int"
    ELSE IF a \in ArithKinds /\ b \in ArithKinds THEN "double"
    ELSE IF a = "custom" /\ b \in ArithKinds \cup {"custom"} THEN "custom"
    ELSE IF a \in ArithKinds /\ b = "custom" THEN "custom"
    ELSE "ill"

\* the result type of the <cmath> functions, which take doubles
MathType(args) ==
    IF \A i \in 1..Len(args) : args[i] \in ArithKinds THEN "double" ELSE "ill"

RECURSIVE SolveType(_)

\* the static type of reduce(x)
ReduceType(x) ==
    LET first  == can_solve(x)
        second == ~can_solve(x) \/ is_arithmetic(x)
    IN IF first /\ second THEN "ill"
       ELSE IF first THEN SolveType(x) ELSE x.k

\* the static type of e.solve() ("void" for the symbolic nodes, "ill" when
\* the member function's body does not compile for e's operand types)
SolveType(e) ==
    CASE e.k \in {"Number", "Paren", "ValuedVariable"} -> ReduceType(e.kids[1])
      [] e.k \in {"Variable", "SubscriptedVariable"} -> "void"
      [] e.k \in {"Fraction", "Multiplication", "Addition", "Subtraction"} ->
            ArithType(ReduceType(e.kids[1]), ReduceType(e.kids[2]))
      [] e.k \in {"Power", "Root"} ->
            MathType(<<ReduceType(e.kids[1]), ReduceType(e.kids[2])>>)
      [] e.k = "Log" -> MathType(<<ReduceType(e.kids[1]), e.kids[2].k>>)
      [] e.k \in {"Exponent", "NaturalLog", "Sin", "Cos", "Tan"} ->
            MathType(<<ReduceType(e.kids[1])>>)
      [] e.k = "Equation" ->
            IF can_solve(e.kids[2]) THEN SolveType(e.kids[2]) ELSE "ill"
      [] OTHER -> "ill"

\* int OP int of the build: signed overflow and division by zero are undefined
Abs(n) == IF n < 0 THEN -n ELSE n

\* n / d rounded toward minus infinity
IntQuot_floor(n, d) ==
    LET q == Abs(n) \div Abs(d)
    IN IF (n < 0) = (d < 0) THEN q
       ELSE IF Abs(n) % Abs(d) = 0 THEN -q ELSE -q - 1

\* the built-in n / d, d nonzero
IntQuot(n, d) ==
    LET q == Abs(n) \div Abs(d)
    IN IF (n < 0) = (d < 0) THEN q ELSE -q

IntRange(r) == IF r < INT_MIN \/ r > INT_MAX THEN UB ELSE Ok(IntVal(r))

IntOp(o, a, b) ==
    CASE o = "+" -> IntRange(a + b)
      [] o = "-" -> IntRange(a - b)
      [] o = "*" -> IntRange(a * b)
      [] o = "/" -> IF b = 0 THEN UB ELSE IntRange(IntQuot(a, b))

\* CustomType<int>'s friend operators: CustomType(cust.val OP other)
CustomOp(o, c, other) ==
    IF other.k = "int"
    THEN LET r == IntOp(o, c.v, other.v)
         IN IF r.st = "ok" THEN Ok(Custom(r.val.v)) ELSE r
    ELSE UB

\* a OP b on reduced operands
BinOp(o, a, b) ==
    CASE a.k = "int" /\ b.k = "int" -> IntOp(o, a.v, b.v)
      [] a.k \in ArithKinds /\ b.k \in ArithKinds /\ "double" \in {a.k, b.k} ->
            Ok(DOp(o, <<a, b>>))
      [] a.k = "custom" -> CustomOp(o, a, b)
      [] OTHER -> UB

VariableError(name) ==
    "attempted to solve an equation containing variable '" \o name \o "'\n"

RECURSIVE Eval(_)

\* reduce() with the solve() overload never selected
reduce_never_solves(x) == Ok(x)

\* reduce(T& val): the first overload is enabled by can_solve<T>, the second
\* by (not can_solve<T> || is_arithmetic<T>); a call both accept is ambiguous
reduce(x) ==
    LET first  == can_solve(x)
        second == ~can_solve(x) \/ is_arithmetic(x)
    IN IF first /\ second THEN IllFormed
       ELSE IF first THEN Eval(x) ELSE Ok(x)

\* reduce(lhs) OP reduce(rhs)
EvalBin(o, l, r) ==
    LET a == reduce(l)
        b == reduce(r)
    IN IF a.st # "ok" THEN a
       ELSE IF b.st # "ok" THEN b
       ELSE BinOp(o, a.val, b.val)

\* ::f(reduce(val)) for a <cmath> function f of one argument
EvalFn(f, x) ==
    LET a == reduce(x)
    IN IF a.st # "ok" THEN a ELSE Ok(DOp(f, <<a.val>>))

\* the solve() member of each class, for an e whose solve() compiles
Number_solve(e)         == reduce(e.kids[1])
Paren_solve(e)          == reduce(e.kids[1])
ValuedVariable_solve(e) == reduce(e.kids[1])
\* Variable::solve() substituting a default value
Variable_solve_default(e) == Ok(IntVal(0))
Variable_solve(e)       == Throw(VariableError(e.s))
SubscriptedVariable_solve(e) ==
    Throw(VariableError(e.kids[1].s \o "_" \o e.kids[2].s))
Fraction_solve(e)       == EvalBin("/", e.kids[1], e.kids[2])
Multiplication_solve(e) == EvalBin("*", e.kids[1], e.kids[2])
Addition_solve(e)       == EvalBin("+", e.kids[1], e.kids[2])
\* Subtraction::solve() with its operands exchanged
Subtraction_solve_swapped(e) == EvalBin("-", e.kids[2], e.kids[1])
Subtraction_solve(e)    == EvalBin("-", e.kids[1], e.kids[2])
Power_solve(e) ==
    LET a == reduce(e.kids[1])
        b == reduce(e.kids[2])
    IN IF a.st # "ok" THEN a
       ELSE IF b.st # "ok" THEN b
       ELSE Ok(DOp("pow", <<a.val, b.val>>))
Root_solve(e) ==
    LET a == reduce(e.kids[1])
        b == reduce(e.kids[2])
    IN IF a.st # "ok" THEN a
       ELSE IF b.st # "ok" THEN b
       ELSE Ok(DOp("pow", <<a.val, DOp("/", <<DblVal(2), b.val>>)>>))
Log_solve(e) ==
    LET a == reduce(e.kids[1])
    IN IF a.st # "ok" THEN a
       ELSE Ok(DOp("/", <<DOp("log", <<a.val>>), DOp("log", <<e.kids[2]>>)>>))
NaturalLog_solve(e) == EvalFn("log", e.kids[1])
Exponent_solve(e)   == EvalFn("exp", e.kids[1])
Sin_solve(e)        == EvalFn("sin", e.kids[1])
Cos_solve(e)        == EvalFn("sin", e.kids[1])
Tan_solve(e)        == EvalFn("sin", e.kids[1])
\* Equation::solve() reducing the left-hand side as well
Equation_solve_both(e) ==
    LET l == reduce(e.kids[1])
    IN IF l.st # "ok" THEN l ELSE Eval(e.kids[2])
Equation_solve(e)   == Eval(e.kids[2])

\* e.solve() dispatched on e's class
Eval(e) ==
    CASE e.k = "Number"         -> Number_solve(e)
      [] e.k = "Paren"          -> Paren_solve(e)
      [] e.k = "ValuedVariable" -> ValuedVariable_solve(e)
      [] e.k = "Variable"       -> Variable_solve(e)
      [] e.k = "SubscriptedVariable" -> SubscriptedVariable_solve(e)
      [] e.k = "Fraction"       -> Fraction_solve(e)
      [] e.k = "Multiplication" -> Multiplication_solve(e)
      [] e.k = "Addition"       -> Addition_solve(e)
      [] e.k = "Subtraction"    -> Subtraction_solve(e)
      [] e.k = "Power"          -> Power_solve(e)
      [] e.k = "Root"           -> Root_solve(e)
      [] e.k = "Log"            -> Log_solve(e)
      [] e.k = "NaturalLog"     -> NaturalLog_solve(e)
      [] e.k = "Exponent"       -> Exponent_solve(e)
      [] e.k = "Sin"            -> Sin_solve(e)
      [] e.k = "Cos"            -> Cos_solve(e)
      [] e.k = "Tan"            -> Tan_solve(e)
      [] e.k = "Equation"       -> Equation_solve(e)

\* the call e.solve() as the build sees it
Solve(e) ==
    IF ~can_solve(e) \/ SolveType(e) = "ill" THEN IllFormed ELSE Eval(e)

\* the call reduce(x) as the build sees it
Reduce(x) == IF ReduceType(x) = "ill" THEN IllFormed ELSE reduce(x)

----------------------------------------------------------------------------
(* Rendering *)

oparen == "\\left("
cparen == "\\right)"

Digits == <<"0", "1", "2", "3", "4", "5", "6", "7", "8", "9">>

RECURSIVE NatToStr(_)
NatToStr(n) ==
    IF n < 10 THEN Digits[n + 1]
    ELSE NatToStr(n \div 10) \o Digits[(n % 10) + 1]

\* os << n for an int
IntToStr(n) == IF n < 0 THEN "-" \o NatToStr(-n) ELSE NatToStr(n)

\* os << d for the double literal h/2
DblToStr(h) ==
    IF h % 2 = 0 THEN IntToStr(h \div 2)
    ELSE (IF h < 0 THEN "-" ELSE "") \o NatToStr(Abs(h) \div 2) \o ".5"

\* no node declares solve() const, so inside the const member latex()
\* can_solve<const T> is false and reduce() returns its argument
reduce_const(x) == Ok(x)

\* reduce(base) != 2 in Root::latex ("ill" when no operator!= applies)
IndexIsNotTwo(base) ==
    LET r == reduce_const(base).val
    IN CASE r.k = "int" -> IF r.v # 2 THEN "true" ELSE "false"
         [] r.k = "double" /\ r.s = "lit" -> IF r.v # 4 THEN "true" ELSE "false"
         [] OTHER -> "ill"

RECURSIVE LatexOK(_)
\* os << x compiles: x is streamable (CustomType declares no operator<<)
LatexOK(x) ==
    CASE x.k \in {"int", "double", "string"} -> TRUE
      [] x.k \in {"custom", "void"} -> FALSE
      [] x.k = "Variable" -> TRUE
      [] x.k = "Root" ->
            /\ LatexOK(x.kids[1]) /\ LatexOK(x.kids[2])
            /\ IndexIsNotTwo(x.kids[2]) # "ill"
      [] OTHER -> \A i \in 1..Len(x.kids) : LatexOK(x.kids[i])

RECURSIVE latex(_)

\* os << x
Show(x) ==
    CASE x.k = "int" -> IntToStr(x.v)
      [] x.k = "double" -> DblToStr(x.v)
      [] x.k = "string" -> x.s
      [] OTHER -> latex(x)

\* insert_label() emitting the tag for an empty label as well
insert_label_always(label) == "\\label{eq:" \o label \o "}\n"
insert_label(label) ==
    IF label # "" THEN "\\label{eq:" \o label \o "}\n" ELSE "\n"

\* the latex() member of each class, for an e whose latex() compiles
Number_latex(e) == Show(e.kids[1])
Paren_latex(e)  == oparen \o Show(e.kids[1]) \o cparen
Fraction_latex(e) ==
    "\\frac{" \o Show(e.kids[1]) \o "}{" \o Show(e.kids[2]) \o "}"
\* Multiplication::latex() grouping a right operand that is a product
Multiplication_latex_grouped(e) ==
    Show(e.kids[1]) \o " * " \o
        (IF e.kids[2].k = "Multiplication"
         THEN oparen \o Show(e.kids[2]) \o cparen ELSE Show(e.kids[2]))
Multiplication_latex(e) == Show(e.kids[1]) \o " * " \o Show(e.kids[2])
\* an Addition that encloses an operand that is a product
Addition_latex_grouped(e) ==
    LET Grouped(x) == IF x.k = "Multiplication"
                      THEN oparen \o Show(x) \o cparen ELSE Show(x)
    IN Grouped(e.kids[1]) \o " + " \o Grouped(e.kids[2])
Addition_latex(e)       == Show(e.kids[1]) \o " + " \o Show(e.kids[2])
Subtraction_latex(e)    == Show(e.kids[1]) \o " - " \o Show(e.kids[2])
\* Power::latex() grouping only a base that is a node
Power_latex_bare(e) ==
    "{" \o (IF can_solve(e.kids[1])
            THEN oparen \o Show(e.kids[1]) \o cparen ELSE Show(e.kids[1]))
        \o "}^{" \o Show(e.kids[2]) \o "}"
Power_latex(e) ==
    "{" \o oparen \o Show(e.kids[1]) \o cparen \o "}^{" \o Show(e.kids[2]) \o "}"
Exponent_latex(e) ==
    "\\mathit{e}^{" \o oparen \o Show(e.kids[1]) \o cparen \o "}"
Root_latex(e) ==
    "\\sqrt"
    \o (IF IndexIsNotTwo(e.kids[2]) = "true"
        THEN "[" \o Show(e.kids[2]) \o "]" ELSE "")
    \o "{" \o Show(e.kids[1]) \o "}"
\* Log::latex() grouping only an argument that is a node
Log_latex_bare(e) ==
    "\\log_{" \o Show(e.kids[2]) \o "}{"
        \o (IF can_solve(e.kids[1])
            THEN oparen \o Show(e.kids[1]) \o cparen ELSE Show(e.kids[1]))
        \o "}"
Log_latex(e) ==
    "\\log_{" \o Show(e.kids[2]) \o "}{" \o oparen \o Show(e.kids[1])
        \o cparen \o "}"
NaturalLog_latex(e) == "\\ln{" \o Show(e.kids[1]) \o "}"
Equation_latex(e) ==
    "\\begin{equation}" \o insert_label(e.s)
    \o Show(e.kids[1]) \o " = " \o Show(e.kids[2]) \o "\n"
    \o "\\end{equation}" \o "\n"
Variable_latex(e) == e.s
\* ValuedVariable::latex() with the test of use_name inverted
ValuedVariable_latex_flipped(e) == IF e.v = 0 THEN e.s ELSE Show(e.kids[1])
ValuedVariable_latex(e) == IF e.v = 1 THEN e.s ELSE Show(e.kids[1])
SubscriptedVariable_latex(e) ==
    Show(e.kids[1]) \o "_{" \o Show(e.kids[2]) \o "}"
Sin_latex(e) == "\\sin{" \o oparen \o Show(e.kids[1]) \o cparen \o "}"
Cos_latex(e) == "\\cos{" \o oparen \o Show(e.kids[1]) \o cparen \o "}"
Tan_latex(e) == "\\tan{" \o oparen \o Show(e.kids[1]) \o cparen \o "}"

split_eq == " & = "

AlignedEquation_latex(e) == e.s

\* e.latex() dispatched on e's class
latex(e) ==
    CASE e.k = "Number"         -> Number_latex(e)
      [] e.k = "Paren"          -> Paren_latex(e)
      [] e.k = "Fraction"       -> Fraction_latex(e)
      [] e.k = "Multiplication" -> Multiplication_latex(e)
      [] e.k = "Addition"       -> Addition_latex(e)
      [] e.k = "Subtraction"    -> Subtraction_latex(e)
      [] e.k = "Power"          -> Power_latex(e)
      [] e.k = "Exponent"       -> Exponent_latex(e)
      [] e.k = "Root"           -> Root_latex(e)
      [] e.k = "Log"            -> Log_latex(e)
      [] e.k = "NaturalLog"     -> NaturalLog_latex(e)
      [] e.k = "Equation"       -> Equation_latex(e)
      [] e.k = "Variable"       -> Variable_latex(e)
      [] e.k = "ValuedVariable" -> ValuedVariable_latex(e)
      [] e.k = "SubscriptedVariable" -> SubscriptedVariable_latex(e)
      [] e.k = "Sin"            -> Sin_latex(e)
      [] e.k = "Cos"            -> Cos_latex(e)
      [] e.k = "Tan"            -> Tan_latex(e)
      [] e.k = "AlignedEquation" -> AlignedEquation_latex(e)

\* the class templates that declare a latex() member
RenderableKinds == SolvableKinds \cup {"AlignedEquation"}

\* the call e.latex() as the build sees it
Latex(e) ==
    IF e.k \notin RenderableKinds \/ ~LatexOK(e) THEN IllFormed
    ELSE Ok(Str(latex(e)))

\* print_steps ending every row, the last one too, with the row separator
RECURSIVE print_steps_all_rows(_)
print_steps_all_rows(steps) ==
    IF Len(steps) = 0 THEN ""
    ELSE split_eq \o Show(steps[1]) \o "\\\\\n"
            \o print_steps_all_rows(Tail(steps))

\* " & = " f, followed by the row separator when more steps follow
RECURSIVE print_steps(_)
print_steps(steps) ==
    IF Len(steps) = 1 THEN split_eq \o Show(steps[1]) \o "\n"
    ELSE split_eq \o Show(steps[1]) \o "\\\\\n" \o print_steps(Tail(steps))

\* AlignedEquation(lhs, steps...): the object keeps the string eqn only
AlignedEquation(lhs, steps) ==
    Mk("AlignedEquation", 0,
       "\\begin{equation}" \o "\n" \o "\\begin{split}\n"
           \o Show(lhs) \o print_steps(steps)
           \o "\\end{split}\n" \o "\\end{equation}" \o "\n",
       <<>>)

\* make_aligned_eqn reducing every step before it lays the steps out
make_aligned_eqn_reducing(lhs, steps) ==
    IF \E i \in 1..Len(steps) : can_solve(steps[i]) /\ Solve(steps[i]).st # "ok"
    THEN Throw("step")
    ELSE Ok(AlignedEquation(lhs, steps))

\* make_aligned_eqn(lhs, steps...): print_steps has no overload for an empty
\* pack, and lhs and every step must be streamable
make_aligned_eqn(lhs, steps) ==
    IF Len(steps) = 0 \/ ~LatexOK(lhs)
          \/ \E i \in 1..Len(steps) : ~LatexOK(steps[i])
    THEN IllFormed
    ELSE Ok(AlignedEquation(lhs, steps))

----------------------------------------------------------------------------
(* The global operators + - * / *)

\* the overloads storing the operands in the opposite slots
OperatorNode_swapped(o, l, r) ==
    CASE o = "+" -> Addition(r, l)
      [] o = "-" -> Subtraction(r, l)
      [] o = "*" -> Multiplication(r, l)
      [] o = "/" -> Fraction(r, l)

\* the node class each overloaded operator constructs
OperatorNode(o, l, r) ==
    CASE o = "+" -> Addition(l, r)
      [] o = "-" -> Subtraction(l, r)
      [] o = "*" -> Multiplication(l, r)
      [] o = "/" -> Fraction(l, r)

\* the overloads without their enable_if guard
Operator_unguarded(o, l, r) ==
    IF l.k = "custom" THEN CustomOp(o, l, r)
    ELSE Ok(OperatorNode(o, l, r))

\* the expression  l OP r  written by a caller: CustomType's own friend
\* operator when l is a CustomType, the library's overload when its
\* enable_if guard holds, the built-in operator otherwise
Operator(o, l, r) ==
    IF l.k = "custom" THEN CustomOp(o, l, r)
    ELSE IF can_solve(l) \/ can_solve(r) THEN Ok(OperatorNode(o, l, r))
    ELSE BinOp(o, l, r)

----------------------------------------------------------------------------------------------------------------------------------------
(* The caller: builds one expression, then reduces or renders it *)

Names  == {"x", "y"}
Labels == {"", "one"}

IntTerminals == {IntVal(n) : n \in -MaxInt..MaxInt}

\* the terminal values a caller supplies
Terminals == IntTerminals \cup {DblVal(4), Custom(1)}

\* what a caller gives an Equation as its left-hand side
EquationLhs ==
    {Variable("y"), SubscriptedVariable(Str("R"), Str("flow")), Str("f")}

LeafKinds == {"Number", "ValuedVariable", "Variable", "SubscriptedVariable"}

\* nesting depth of operator nodes; a leaf node over a terminal has depth 0
RECURSIVE Depth(_)
Depth(e) ==
    IF ~can_solve(e) THEN 0
    ELSE IF e.k \in LeafKinds /\ \A i \in 1..Len(e.kids) : ~can_solve(e.kids[i])
         THEN 0
    ELSE IF Len(e.kids) = 1 THEN 1 + Depth(e.kids[1])
    ELSE 1 + (IF Depth(e.kids[1]) > Depth(e.kids[2])
              THEN Depth(e.kids[1]) ELSE Depth(e.kids[2]))

\* what a caller puts on the other side of a binary node: any terminal next
\* to a terminal, the int 2 next to a node
Operands == IF ~can_solve(expr) THEN Terminals ELSE {IntVal(2)}

\* CustomType<int> supports only  custom OP int  (see CustomOp)
OpaqueOK(l, r) ==
    "custom" \in {ReduceType(l), ReduceType(r)}
        => ReduceType(l) = "custom" /\ ReduceType(r) = "int"

\* what undefined behaviour can turn into
Outcomes(r) ==
    IF r.st = "ub" THEN {Crash} \cup {Ok(t) : t \in IntTerminals} ELSE {r}

\* the caller may still extend expr by an operator node: expr came from a
\* constructor, is no Equation (a display block) and is not yet MaxDepth deep
CanBuild ==
    /\ op \in {"init", "build"}
    /\ expr.k # "Equation"
    /\ Depth(expr) < MaxDepth

Built(e) ==
    /\ expr' = e
    /\ op' = "build"
    /\ out' = NoOutcome
    /\ UNCHANGED held

Init ==
    /\ expr \in Terminals
    /\ op = "init"
    /\ out = NoOutcome
    /\ held = <<>>

MakeNum ==
    /\ IF can_solve(expr) THEN CanBuild ELSE op = "init"
    /\ Built(Number(expr))
MakeParen == CanBuild /\ Built(Paren(expr))
MakeExp   == CanBuild /\ Built(Exponent(expr))
MakeLn    == CanBuild /\ Built(NaturalLog(expr))
MakeSin   == CanBuild /\ Built(Sin(expr))
MakeCos   == CanBuild /\ Built(Cos(expr))
MakeTan   == CanBuild /\ Built(Tan(expr))

MakeFraction ==
    /\ CanBuild
    /\ \E o \in Operands : \E e \in {Fraction(expr, o), Fraction(o, expr)} :
          OpaqueOK(e.kids[1], e.kids[2]) /\ Built(e)
MakeMult ==
    /\ CanBuild
    /\ \E o \in Operands :
        \E e \in {Multiplication(expr, o), Multiplication(o, expr)} :
          OpaqueOK(e.kids[1], e.kids[2]) /\ Built(e)
MakeAdd ==
    /\ CanBuild
    /\ \E o \in Operands : \E e \in {Addition(expr, o), Addition(o, expr)} :
          OpaqueOK(e.kids[1], e.kids[2]) /\ Built(e)
MakeSub ==
    /\ CanBuild
    /\ \E o \in Operands :
        \E e \in {Subtraction(expr, o), Subtraction(o, expr)} :
          OpaqueOK(e.kids[1], e.kids[2]) /\ Built(e)
MakePow ==
    /\ CanBuild
    /\ \E o \in Operands : \E e \in {Power(expr, o), Power(o, expr)} : Built(e)
MakeRoot ==
    /\ CanBuild
    /\ \E o \in Operands : \E e \in {Root(expr, o), Root(o, expr)} : Built(e)
MakeLog ==
    /\ CanBuild
    /\ \E o \in Operands : \E e \in {Log(expr, o), Log(o, expr)} : Built(e)

\* Equation(lhs, rhs) and Equation(label, lhs, rhs) with expr as the rhs
NewEquation ==
    /\ CanBuild
    /\ \E label \in Labels, lhs \in EquationLhs :
          Built(Equation(label, lhs, expr))

NewVariable ==
    /\ op = "init"
    /\ \E name \in Names : Built(Variable(name))

NewValuedVariable ==
    /\ op = "init"
    /\ \E use_name \in BOOLEAN :
          Built(ValuedVariable(expr, "v", use_name))

NewSubscriptedVariable ==
    /\ op = "init"
    /\ \E up \in Names, low \in Names :
          Built(SubscriptedVariable(Str(up), Str(low)))

\* expr OP o  or  o OP expr
ApplyOperator(o) ==
    /\ CanBuild
    /\ \E x \in Operands : \E p \in {<<expr, x>>, <<x, expr>>} :
        /\ "custom" \in {p[1].k, p[2].k} => p[1].k = "custom" /\ p[2].k = "int"
        /\ \E r \in Outcomes(Operator(o, p[1], p[2])) :
              /\ r.st = "ok"
              /\ can_solve(r.val) \/ r.val \in Terminals
              /\ expr' = r.val
              /\ op' = "operator"
              /\ out' = Ok(Mk(o, 0, "", <<p[1], p[2]>>))
    /\ UNCHANGED held

OperatorPlus   == ApplyOperator("+")
OperatorMinus  == ApplyOperator("-")
OperatorTimes  == ApplyOperator("*")
OperatorDivide == ApplyOperator("/")

CallSolve ==
    /\ can_solve(expr)
    /\ \E r \in Outcomes(Solve(expr)) : out' = r
    /\ op' = "solve"
    /\ UNCHANGED <<expr, held>>

CallReduce ==
    /\ \E r \in Outcomes(Reduce(expr)) : out' = r
    /\ op' = "reduce"
    /\ UNCHANGED <<expr, held>>

CallLatex ==
    /\ expr.k \in RenderableKinds
    /\ out' = Latex(expr)
    /\ op' = "latex"
    /\ UNCHANGED <<expr, held>>

Next ==
    \/ MakeNum \/ MakeParen \/ MakeExp \/ MakeLn
    \/ MakeSin \/ MakeCos \/ MakeTan
    \/ MakeFraction \/ MakeMult \/ MakeAdd \/ MakeSub
    \/ MakePow \/ MakeRoot \/ MakeLog
    \/ NewEquation \/ NewVariable \/ NewValuedVariable
    \/ NewSubscriptedVariable
    \/ OperatorPlus \/ OperatorMinus \/ OperatorTimes \/ OperatorDivide
    \/ CallSolve \/ CallReduce \/ CallLatex

Spec == Init /\ [][Next]_vars

----------------------------------------------------------------------------
(* The chaining methods pow, log, ln and sqrt *)

\* the classes that declare the four methods with Self naming their own type
ChainKinds ==
    {"Number", "Fraction", "Multiplication", "Addition", "Subtraction",
     "Power", "Exponent", "NaturalLog", "ValuedVariable", "Sin", "Cos", "Tan"}

\* n.pow(x) is Power<Self, T>(*this, x).  Log declares Self as Root<Val, Base>
\* and no Root is constructible from a Log; Paren, Equation, Variable and
\* SubscriptedVariable declare no chaining method
pow(n, x) ==
    IF n.k \in ChainKinds \cup {"Root"} THEN Ok(Power(n, x)) ELSE IllFormed

\* n.log(base) is Log<Self, Base>(*this, base).  Root and Log declare log()
\* without a parameter, so no call with a base matches
log(n, base) == IF n.k \in ChainKinds THEN Ok(Log(n, base)) ELSE IllFormed

\* n.ln() is NaturalLog<Self>(*this)
ln(n) ==
    IF n.k \in ChainKinds \cup {"Root"} THEN Ok(NaturalLog(n)) ELSE IllFormed

\* n.sqrt() is Root<Self, int>(*this, 2)
sqrt(n) ==
    IF n.k \in ChainKinds \cup {"Root"} THEN Ok(Root(n, IntVal(2)))
    ELSE IllFormed

----------------------------------------------------------------------------
(* A caller that keeps one node and goes on using it: it mutates the object *)
(* it passed to the node's constructor, derives further nodes from the node *)
(* and reduces and renders it                                               *)

\* the ValuedVariable objects a caller owns
OwnVariables ==
    {ValuedVariable(t, name, use_name) :
        t \in IntTerminals, name \in Names, use_name \in BOOLEAN}

\* the nodes a caller constructs from its object v: every constructor takes
\* its operands by value or by const reference and copies them into members
NodesOver(v) ==
    {Number(v), Paren(v), Exponent(v), NaturalLog(v), Sin(v), Cos(v), Tan(v),
     Fraction(v, IntVal(2)), Fraction(IntVal(2), v),
     Multiplication(v, IntVal(2)), Addition(IntVal(2), v),
     Subtraction(v, IntVal(2)), Power(v, IntVal(2)),
     Root(v, IntVal(2)), Root(IntVal(2), v),
     Log(v, IntVal(2)), Log(IntVal(2), v),
     Equation("", Variable("y"), v), ValuedVariable(v, "w", FALSE),
     ValuedVariable2(v, "d")}

InitNode ==
    /\ held \in {<<v>> : v \in OwnVariables}
    /\ expr = held[1]
    /\ op = "init"
    /\ out = NoOutcome

Construct == op = "init" /\ \E e \in NodesOver(held[1]) : Built(e)

\* an assignment to a public field of the caller's object rebinding every
\* copy of the object inside expr as well
RECURSIVE Rebind(_, _, _)
Rebind(e, old, new) ==
    IF e = old THEN new
    ELSE [e EXCEPT !.kids = [i \in 1..Len(e.kids) |-> Rebind(e.kids[i], old, new)]]

Assign_aliased(v) ==
    /\ held' = <<v>>
    /\ expr' = Rebind(expr, held[1], v)
    /\ op' = IF op = "init" THEN "init" ELSE "assign"
    /\ out' = NoOutcome

\* an assignment to a public field of the caller's object; before the node
\* is constructed expr is that object, afterwards the node holds a copy
Assign(v) ==
    /\ held' = <<v>>
    /\ expr' = IF op = "init" THEN v ELSE expr
    /\ op' = IF op = "init" THEN "init" ELSE "assign"
    /\ out' = NoOutcome

\* held.val = t
AssignVal ==
    \E t \in IntTerminals :
        /\ t # held[1].kids[1]
        /\ Assign([held[1] EXCEPT !.kids = <<t>>])

\* held.name = name
AssignName ==
    \E name \in Names :
        /\ name # held[1].s
        /\ Assign([held[1] EXCEPT !.s = name])

\* a node derived from expr; expr itself stays what it was
Derived(method, r) ==
    /\ op # "init"
    /\ op' = method
    /\ out' = r
    /\ UNCHANGED <<expr, held>>

CallPow  == Derived("pow", pow(expr, IntVal(2)))
CallLog  == Derived("log", log(expr, IntVal(2)))
CallLn   == Derived("ln", ln(expr))
CallSqrt == Derived("sqrt", sqrt(expr))

\* expr OP 2  and  2 OP expr
Combine ==
    \E o \in {"+", "-", "*", "/"} :
        \E r \in {Operator(o, expr, IntVal(2)), Operator(o, IntVal(2), expr)} :
            Derived(o, r)

NextNode ==
    \/ Construct \/ AssignVal \/ AssignName
    \/ CallPow \/ CallLog \/ CallLn \/ CallSqrt \/ Combine
    \/ CallSolve \/ CallReduce \/ CallLatex

SpecNode == InitNode /\ [][NextNode]_vars

----------------------------------------------------------------------------
(* A caller that writes the discriminant root of the quadratic formula with *)
(* operators and chaining methods                                           *)

\* the Numbers a caller makes from native ints
OwnNumbers == {Number(t) : t \in IntTerminals}

\* (a.pow(2) - 4 * b * c).sqrt() as C++ parses it: 4 * b * c is (4 * b) * c
Quadratic(a, b, c) ==
    LET square  == pow(a, IntVal(2))
        four_b  == Operator("*", IntVal(4), b)
        product == Operator("*", four_b.val, c)
        diff    == Operator("-", square.val, product.val)
    IN sqrt(diff.val)

InitQuadratic ==
    /\ held \in {<<a, b, c>> : a \in OwnNumbers, b \in OwnNumbers, c \in OwnNumbers}
    /\ expr = held[1]
    /\ op = "init"
    /\ out = NoOutcome

ChainQuadratic ==
    /\ op = "init"
    /\ LET r == Quadratic(held[1], held[2], held[3])
       IN r.st = "ok" /\ Built(r.val)

NextQuadratic == ChainQuadratic \/ CallSolve \/ CallReduce \/ CallLatex

SpecQuadratic == InitQuadratic /\ [][NextQuadratic]_vars

----------------------------------------------------------------------------
(* A caller that lays a derivation out as an AlignedEquation *)

\* what a caller gives as the left-hand side
AlignedLhs == {Variable("y"), SubscriptedVariable(Str("R"), Str("flow"))}

\* what a caller gives as a step: a native int, a node with a Variable in
\* it, a bare Variable
StepValues ==
    IntTerminals \cup {Addition(Variable("x"), IntVal(1)), Variable("z")}

\* the sequences of 1 .. n steps
RECURSIVE StepSeqs(_)
StepSeqs(n) ==
    IF n = 0 THEN {}
    ELSE {<<v>> : v \in StepValues}
         \cup StepSeqs(n - 1)
         \cup {Append(q, v) : q \in StepSeqs(n - 1), v \in StepValues}

\* held is <<lhs, step 1, ..., step n>>
InitAligned ==
    /\ held \in {<<lhs>> \o steps : lhs \in AlignedLhs, steps \in StepSeqs(MaxSteps)}
    /\ expr = held[1]
    /\ op = "init"
    /\ out = NoOutcome

MakeAlignedEqn ==
    /\ op = "init"
    /\ LET r == make_aligned_eqn(held[1], Tail(held))
       IN r.st = "ok" /\ Built(r.val)

NextAligned == MakeAlignedEqn \/ CallLatex \/ CallReduce

SpecAligned == InitAligned /\ [][NextAligned]_vars

----------------------------------------------------------------------------
(* Document generation (namespace latex::doc): Text, List, Subsection,      *)
(* Section and Document.  A container is a record of the class's fields;    *)
(* streaming a value into it gives Ok(the container afterwards) or the      *)
(* outcome that stopped the call.                                            *)

\* text style
Bold == [open |-> "\\textbf{", close |-> "}"]

Text(Style, raw) == [k |-> "Text", Style |-> Style, raw |-> raw]

Text_to_string(t) == t.Style.open \o t.raw \o t.Style.close

\* list styles
Ordered   == [open |-> "\\begin{enumerate}", close |-> "\\end{enumerate}"]
Unordered == [open |-> "\\begin{itemize}", close |-> "\\end{itemize}"]

\* a default-constructed List<Style>
List(Style) ==
    [k |-> "List", Style |-> Style,
     ordering |-> <<>>, items |-> <<>>, sublists |-> <<>>]

add(l, str) ==
    [l EXCEPT !.items = Append(@, str), !.ordering = Append(@, "String")]

add_sublist_mistagged(l, list) ==
    [l EXCEPT !.sublists = Append(@, list), !.ordering = Append(@, "String")]

add_sublist(l, list) ==
    [l EXCEPT !.sublists = Append(@, list), !.ordering = Append(@, "Sublist")]

RECURSIVE Tabs(_)
Tabs(n) == IF n = 0 THEN "" ELSE "\t" \o Tabs(n - 1)

NoItems    == "attempted to output a list item, but no items remaining."
NoSublists == "attempted to output a sublist item, but no sublists remaining."

\* List::build(os, depth): the text written to os, or the exception.  i is
\* the position in ordering, itemit and subit the two iterators.
RECURSIVE build(_, _)
RECURSIVE build_loop(_, _, _, _, _)
build_loop(l, depth, i, itemit, subit) ==
    IF i > Len(l.ordering) THEN Ok(Str(""))
    ELSE IF l.ordering[i] = "String"
    THEN IF itemit <= Len(l.items)
         THEN LET rest == build_loop(l, depth, i + 1, itemit + 1, subit)
              IN IF rest.st # "ok" THEN rest
                 ELSE Ok(Str(Tabs(depth - 1) \o "\t" \o "\\item "
                             \o l.items[itemit] \o "\n" \o rest.val.s))
         ELSE Throw(NoItems)
    ELSE IF subit <= Len(l.sublists)
         THEN LET sub  == build(l.sublists[subit], depth + 1)
                  rest == build_loop(l, depth, i + 1, itemit, subit + 1)
              IN IF sub.st # "ok" THEN sub
                 ELSE IF rest.st # "ok" THEN rest
                 ELSE Ok(Str(sub.val.s \o rest.val.s))
         ELSE Throw(NoSublists)

build_flat(l, depth) ==
    LET body == build_loop(l, 1, 1, 1, 1)
    IN IF body.st # "ok" THEN body
       ELSE Ok(Str(l.Style.open \o "\n" \o body.val.s \o l.Style.close \o "\n"))

build(l, depth) ==
    LET prefix == Tabs(depth - 1)
        body   == build_loop(l, depth, 1, 1, 1)
    IN IF body.st # "ok" THEN body
       ELSE Ok(Str(prefix \o l.Style.open \o "\n" \o body.val.s
                   \o prefix \o l.Style.close \o "\n"))

List_to_string(l) == build(l, 1)

Subsection(title) == [k |-> "Subsection", title |-> title, content |-> <<>>]

Section(title, new_page) ==
    [k |-> "Section", new_page |-> new_page, title |-> title,
     subs |-> <<>>, leading_content |-> <<>>]

\* document types
Article == [header |-> "article", can_toc |-> FALSE, can_subtitle |-> FALSE]
Report  == [header |-> "report", can_toc |-> TRUE, can_subtitle |-> TRUE]

font_size == 12

Document(DocType, title, subtitle) ==
    [k |-> "Document", DocType |-> DocType, title |-> title,
     subtitle |-> subtitle, use_toc |-> DocType.can_toc,
     imports |-> <<>>, leading_contents |-> <<>>, sections |-> <<>>]

\* s[1] \o sep \o s[2] \o sep ... : every element followed by sep
RECURSIVE EachThen(_, _)
EachThen(s, sep) ==
    IF s = <<>> THEN "" ELSE Head(s) \o sep \o EachThen(Tail(s), sep)

\* operator<<(std::ostream&, const Subsection&)
Subsection_out(sub) ==
    "\\subsection{" \o sub.title \o "}\n\n" \o EachThen(sub.content, "\n\n")

Section_build(s) ==
    (IF s.new_page THEN "\n\n\\newpage\n\n" ELSE "")
    \o "\\section{" \o s.title \o "}\n\n"
    \o EachThen(s.leading_content, "\n\n")
    \o EachThen([i \in 1..Len(s.subs) |-> Subsection_out(s.subs[i])], "\n\n")

Section_latex(s) == Section_build(s)

\* Document::build up to the first leading content
Document_preamble(d) ==
    "\\documentclass[" \o NatToStr(font_size) \o "pt]{" \o d.DocType.header
    \o "}\n" \o "\n"
    \o (IF d.DocType.can_subtitle /\ d.subtitle # ""
        THEN "\\title{" \o d.title \o " \\\\ " \o d.subtitle \o "}\n"
        ELSE "\\title{" \o d.title \o "}\n")
    \o "\n\n"
    \o EachThen([i \in 1..Len(d.imports) |->
                    "\\usepackage{" \o d.imports[i] \o "}"], "\n")
    \o "\n\n"
    \o "\\begin{document}\n" \o "\n" \o "\\maketitle\n" \o "\n"
    \o (IF d.use_toc THEN "\\tableofcontents\n\n\\newpage\n\n" ELSE "")
    \o "\n\n"

Document_build_sections_first(d) ==
    Document_preamble(d)
    \o EachThen([i \in 1..Len(d.sections) |-> Section_build(d.sections[i])],
                "\n\n")
    \o EachThen(d.leading_contents, "\n\n")
    \o "\\end{document}\n"

Document_build(d) ==
    Document_preamble(d)
    \o EachThen(d.leading_contents, "\n\n")
    \o EachThen([i \in 1..Len(d.sections) |-> Section_build(d.sections[i])],
                "\n\n")
    \o "\\end{document}\n"

Document_to_string(d) == Document_build(d)

\* the classes with a to_string() member, and those with a latex() member
can_stringify(val) == val.k \in {"Text", "List", "Document"}
can_latex(val)     == val.k \in RenderableKinds \cup {"Section"}

to_string(val) ==
    CASE val.k = "Text"     -> Ok(Str(Text_to_string(val)))
      [] val.k = "List"     -> List_to_string(val)
      [] val.k = "Document" -> Ok(Str(Document_to_string(val)))

\* val.latex() for any class that has the member
latex_of(val) ==
    IF val.k = "Section" THEN Ok(Str(Section_latex(val))) ELSE Latex(val)

\* list << val: the overload set of List::operator<<
List_stream(l, val) ==
    IF val.k = "string" THEN Ok(add(l, val.s))
    ELSE IF val.k = "List" /\ val.Style = l.Style THEN Ok(add_sublist(l, val))
    ELSE IF can_stringify(val) /\ val.k # "List" /\ can_latex(val)
    THEN IllFormed
    ELSE IF can_stringify(val) /\ val.k # "List"
    THEN LET r == to_string(val)
         IN IF r.st = "ok" THEN Ok(add(l, r.val.s)) ELSE r
    ELSE IF can_latex(val)
    THEN LET r == latex_of(val)
         IN IF r.st = "ok" THEN Ok(add(l, r.val.s)) ELSE r
    ELSE IllFormed

\* subsection << val
Subsection_stream(sub, val) ==
    IF val.k = "string"
    THEN Ok([sub EXCEPT !.content = Append(@, val.s)])
    ELSE IF can_stringify(val) /\ can_latex(val) THEN IllFormed
    ELSE IF can_stringify(val)
    THEN LET r == to_string(val)
         IN IF r.st = "ok"
            THEN Ok([sub EXCEPT !.content = Append(@, r.val.s)]) ELSE r
    ELSE IF can_latex(val)
    THEN LET r == latex_of(val)
         IN IF r.st = "ok"
            THEN Ok([sub EXCEPT !.content = Append(@, r.val.s)]) ELSE r
    ELSE IllFormed

\* section << val: there is no overload for a class with latex() only
Section_stream(s, val) ==
    IF val.k = "string"
    THEN Ok([s EXCEPT !.leading_content = Append(@, val.s)])
    ELSE IF val.k = "Subsection" THEN Ok([s EXCEPT !.subs = Append(@, val)])
    ELSE IF can_stringify(val)
    THEN LET r == to_string(val)
         IN IF r.st = "ok"
            THEN Ok([s EXCEPT !.leading_content = Append(@, r.val.s)]) ELSE r
    ELSE IllFormed

Document_use(d, import) == [d EXCEPT !.imports = Append(@, import)]

write_leading(d, content) ==
    [d EXCEPT !.leading_contents = Append(@, content)]

\* document << val
Document_stream(d, val) ==
    IF val.k = "string" THEN Ok(write_leading(d, val.s))
    ELSE IF val.k = "Section" THEN Ok([d EXCEPT !.sections = Append(@, val)])
    ELSE IllFormed

----------------------------------------------------------------------------
(* A caller that streams one value, and strings, into a List, a Subsection  *)
(* and a Section                                                             *)

\* greatest number of entries a caller streams into its containers
MaxEntries == 4

ItemStrings == {"a", "b"}

\* what the caller streams: nodes of the expression algebra, a styled Text,
\* a List that has an item
Streamed ==
    {Equation("", Variable("y"), IntVal(5)),
     Addition(IntVal(1), IntVal(2)),
     Variable("z"),
     AlignedEquation(Variable("y"), <<IntVal(1), IntVal(2)>>),
     Text(Bold, "hi"),
     add(List(Unordered), "a")}

\* the entries in a container
Entries(c) ==
    CASE c.k = "List"       -> Len(c.ordering)
      [] c.k = "Subsection" -> Len(c.content)
      [] c.k = "Section"    -> Len(c.leading_content) + Len(c.subs)
      [] c.k = "Document"   ->
            Len(c.imports) + Len(c.leading_contents) + Len(c.sections)

RECURSIVE TotalEntries(_)
TotalEntries(cs) ==
    IF cs = <<>> THEN 0 ELSE Entries(Head(cs)) + TotalEntries(Tail(cs))

\* held is <<list, subsection, section, value>>; expr is the value that
\* was streamed last
InitStream ==
    /\ \E val \in Streamed :
          held = <<List(Unordered), Subsection("sub"), Section("sec", FALSE),
                   val>>
    /\ expr = held[4]
    /\ op = "init"
    /\ out = NoOutcome

\* held[i] << val, written by the caller as name
Streams(i, val, r, name) ==
    /\ TotalEntries(SubSeq(held, 1, 3)) < MaxEntries
    /\ op' = name
    /\ expr' = val
    /\ out' = IF r.st = "ok" THEN Ok(Void) ELSE r
    /\ held' = IF r.st = "ok" THEN [held EXCEPT ![i] = r.val] ELSE held

StreamList ==
    \E val \in {held[4]} \cup {Str(s) : s \in ItemStrings} :
        Streams(1, val, List_stream(held[1], val), "List <<")

StreamSubsection ==
    \E val \in {held[4]} \cup {Str(s) : s \in ItemStrings} :
        Streams(2, val, Subsection_stream(held[2], val), "Subsection <<")

StreamSection ==
    \E val \in {held[4], held[2]} \cup {Str(s) : s \in ItemStrings} :
        Streams(3, val, Section_stream(held[3], val), "Section <<")

NextStream == StreamList \/ StreamSubsection \/ StreamSection

SpecStream == InitStream /\ [][NextStream]_vars

----------------------------------------------------------------------------
(* A caller that builds nested lists: it keeps three List objects, streams  *)
(* strings into them and the deeper ones into the shallower ones, and       *)
(* renders them                                                              *)

RECURSIVE Relisted(_, _, _)
Relisted(l, old, new) ==
    [l EXCEPT !.sublists =
        [n \in 1..Len(l.sublists) |->
            IF l.sublists[n] = old THEN new
            ELSE Relisted(l.sublists[n], old, new)]]

Stored_aliased(i, l) ==
    held' = [j \in 1..Len(held) |->
                IF j = i THEN l ELSE Relisted(held[j], held[i], l)]

\* the caller's i-th list has become l; the lists that hold a copy of it,
\* and the lists it holds copies of, are other objects
Stored(i, l) == held' = [held EXCEPT ![i] = l]

\* held is <<list, sublist, third_tier>>, of one style
InitList ==
    /\ \E Style \in {Ordered, Unordered} :
          held = <<List(Style), List(Style), List(Style)>>
    /\ expr = held[1]
    /\ op = "init"
    /\ out = NoOutcome

\* held[i] << str
StreamString ==
    \E i \in 1..3, str \in ItemStrings :
        /\ TotalEntries(held) < MaxEntries
        /\ Stored(i, List_stream(held[i], Str(str)).val)
        /\ expr' = Str(str)
        /\ op' = "<<"
        /\ out' = NoOutcome

\* held[i] << held[j] for a list j declared after i
StreamSublist ==
    \E i \in 1..2 : \E j \in (i + 1)..3 :
        /\ TotalEntries(held) < MaxEntries
        /\ Stored(i, List_stream(held[i], held[j]).val)
        /\ expr' = held[j]
        /\ op' = "<<"
        /\ out' = NoOutcome

\* held[i].add(str)
CallAdd ==
    \E i \in 1..3, str \in ItemStrings :
        /\ TotalEntries(held) < MaxEntries
        /\ Stored(i, add(held[i], str))
        /\ expr' = Str(str)
        /\ op' = "add"
        /\ out' = NoOutcome

\* held[i].add_sublist(held[j])
CallAddSublist ==
    \E i \in 1..2 : \E j \in (i + 1)..3 :
        /\ TotalEntries(held) < MaxEntries
        /\ Stored(i, add_sublist(held[i], held[j]))
        /\ expr' = held[j]
        /\ op' = "add_sublist"
        /\ out' = NoOutcome

\* held[i].to_string()
CallToString ==
    \E i \in 1..3 :
        /\ expr' = held[i]
        /\ op' = "to_string"
        /\ out' = List_to_string(held[i])
        /\ UNCHANGED held

NextList ==
    StreamString \/ StreamSublist \/ CallAdd \/ CallAddSublist \/ CallToString

SpecList == InitList /\ [][NextList]_vars

----------------------------------------------------------------------------
(* A caller that fills a Document: it imports packages, writes leading      *)
(* content and inserts the two Sections it holds, in any order, and renders *)
(* the document                                                              *)

Imports == {"amsmath", "graphicx"}

\* held is the caller's two sections, the second one forced to a new page;
\* expr is the document
InitDocument ==
    /\ held = <<Section_stream(
                    Section_stream(Section("One", FALSE), Str("text")).val,
                    Subsection_stream(Subsection("Sub"), Str("more")).val).val,
                Section("Two", TRUE)>>
    /\ expr \in {Document(Article, "Title", ""),
                 Document(Report, "Title", "Subtitle")}
    /\ op = "init"
    /\ out = NoOutcome

\* doc.use(import)
CallUse ==
    \E import \in Imports :
        /\ Entries(expr) < MaxEntries
        /\ expr' = Document_use(expr, import)
        /\ op' = "use"
        /\ out' = NoOutcome
        /\ UNCHANGED held

\* doc << content, doc.write_leading(content)
WriteLeading ==
    \E content \in ItemStrings :
        /\ Entries(expr) < MaxEntries
        /\ \/ expr' = Document_stream(expr, Str(content)).val /\ op' = "<<"
           \/ expr' = write_leading(expr, content) /\ op' = "write_leading"
        /\ out' = NoOutcome
        /\ UNCHANGED held

\* doc << section
StreamSectionIn ==
    \E i \in 1..Len(held) :
        /\ Entries(expr) < MaxEntries
        /\ expr' = Document_stream(expr, held[i]).val
        /\ op' = "<< section"
        /\ out' = NoOutcome
        /\ UNCHANGED held

\* doc.to_string()
CallDocToString ==
    /\ op' = "to_string"
    /\ out' = to_string(expr)
    /\ UNCHANGED <<expr, held>>

NextDocument == CallUse \/ WriteLeading \/ StreamSectionIn \/ CallDocToString

SpecDocument == InitDocument /\ [][NextDocument]_vars

----------------------------------------------------------------------------
(* A caller that combines three terminals a, b and c into a product and a   *)
(* sum, nested one way or the other, with or without a Paren                *)

\* the terminals a caller combines: native ints, a double, a Variable
GroupTerminals == IntTerminals \cup {DblVal(5), Variable("x")}

\* held is <<a, b, c>>
InitGrouping ==
    /\ held \in {<<a, b, c>> : a \in GroupTerminals, b \in GroupTerminals,
                               c \in GroupTerminals}
    /\ expr = held[1]
    /\ op = "init"
    /\ out = NoOutcome

\* a * (b + c) and a * (b - c) as the caller's grouping of the nodes
MakeProductOfSum ==
    /\ op = "init"
    /\ \/ Built(Multiplication(held[1], Addition(held[2], held[3])))
       \/ Built(Multiplication(held[1], Subtraction(held[2], held[3])))

\* (a * b) + c and (a * b) - c
MakeSumOfProduct ==
    /\ op = "init"
    /\ \/ Built(Addition(Multiplication(held[1], held[2]), held[3]))
       \/ Built(Subtraction(Multiplication(held[1], held[2]), held[3]))

\* a * Paren(b + c)
MakeProductOfParen ==
    /\ op = "init"
    /\ Built(Multiplication(held[1], Paren(Addition(held[2], held[3]))))

NextGrouping ==
    \/ MakeProductOfSum \/ MakeSumOfProduct \/ MakeProductOfParen
    \/ CallLatex \/ CallSolve

SpecGrouping == InitGrouping /\ [][NextGrouping]_vars

----------------------------------------------------------------------------
(* Properties of the reduction protocol and the operator layer *)

\* the operands of the node or operator application x
Lhs(x) == x.kids[1]
Rhs(x) == x.kids[2]

\* x reduces, without failure, to a native int
ReducesToInt(x) ==
    ReduceType(x) = "int" /\ Reduce(x).st = "ok" /\ Reduce(x).val.k = "int"

\* C1: reduce(x) is x.solve() exactly when x's class declares solve() and x
\* is not an arithmetic primitive, and is x itself for every other x; an
\* Addition of an opaque CustomType and a native int therefore reduces to
\* the value of CustomType's own operator+.
C1_ReduceDispatch ==
    /\ op = "reduce" =>
          IF expr.k \in SolvableKinds /\ expr.k \notin ArithKinds
          THEN out \in Outcomes(Solve(expr))
          ELSE out = Ok(expr)
    /\ (/\ op \in {"reduce", "solve"}
        /\ expr.k = "Addition"
        /\ Lhs(expr).k = "custom"
        /\ Rhs(expr).k = "int")
          => out = Ok(Custom(Lhs(expr).v + Rhs(expr).v))

C1_Witness ==
    /\ op = "reduce"
    /\ expr = Addition(Custom(1), IntVal(2))
    /\ out = Ok(Custom(3))

\* the fixed text around the symbol's name in the error message
MessageParts ==
    {"attempted to solve an equation containing variable '", "'\n"}

MentionsName(msg, name) ==
    \E pre \in MessageParts, post \in MessageParts : msg = pre \o name \o post

\* C2: reducing a Variable or a SubscriptedVariable always throws, and the
\* message contains the symbol's name (upper_lower for a SubscriptedVariable);
\* no value is ever returned.
C2_SymbolsAlwaysFail ==
    /\ (op \in {"reduce", "solve"} /\ expr.k = "Variable")
          => out.st = "throw" /\ MentionsName(out.msg, expr.s)
    /\ (op \in {"reduce", "solve"} /\ expr.k = "SubscriptedVariable")
          => /\ out.st = "throw"
             /\ MentionsName(out.msg, Lhs(expr).s \o "_" \o Rhs(expr).s)

C2_Witness ==
    /\ op = "solve"
    /\ expr = SubscriptedVariable(Str("x"), Str("y"))
    /\ out.st = "throw"
    /\ out.msg = "attempted to solve an equation containing variable 'x_y'\n"

\* the operator nodes of the catalogue
OperatorKinds ==
    {"Paren", "Fraction", "Multiplication", "Addition", "Subtraction",
     "Power", "Exponent", "Root", "Log", "NaturalLog", "Sin", "Cos", "Tan"}

RECURSIVE SymbolsUnder(_)
\* the names of the Variables in operand positions of operator nodes of e
SymbolsUnder(e) ==
    IF e.k = "Variable" THEN {e.s}
    ELSE IF e.k \in OperatorKinds
         THEN UNION {SymbolsUnder(e.kids[i]) : i \in 1..Len(e.kids)}
    ELSE {}

\* C3: reducing a tree of operator nodes with a Variable in an operand
\* position fails with that Variable's error.
C3_FailurePropagates ==
    (op = "solve" /\ expr.k \in OperatorKinds /\ SymbolsUnder(expr) # {})
        => /\ out.st = "throw"
           /\ \E name \in SymbolsUnder(expr) : out.msg = VariableError(name)

RECURSIVE HasOpaque(_)
\* a CustomType value occurs in e (CustomType is not streamable)
HasOpaque(e) ==
    e.k = "custom" \/ \E i \in 1..Len(e.kids) : HasOpaque(e.kids[i])

\* C4: render returns a string for every node and every operand content,
\* Root included.
C4_RenderTotal ==
    (op = "latex" /\ ~HasOpaque(expr)) => out.st = "ok" /\ out.val.k = "string"

\* C5: an operator node whose operands all reduce successfully returns a
\* value; it never fails on its own at run time.
C5_NoOwnFailure ==
    (/\ op = "solve"
     /\ expr.k \in OperatorKinds
     /\ \A i \in 1..Len(expr.kids) : Reduce(expr.kids[i]).st = "ok")
        => out.st \notin {"crash", "throw"}

\* C6: Equation(lhs, rhs).solve() is rhs.solve() for every rhs with a solve()
\* member, whatever the lhs; it fails exactly when rhs.solve() fails.
C6_EquationIgnoresLhs ==
    (op = "solve" /\ expr.k = "Equation" /\ can_solve(Rhs(expr)))
        => /\ out \in Outcomes(Solve(Rhs(expr)))
           /\ \A lhs \in EquationLhs :
                 Solve(Equation(expr.s, lhs, Rhs(expr))) = Solve(Rhs(expr))

C6_Witness ==
    /\ op = "solve"
    /\ expr.k = "Equation"
    /\ Lhs(expr) = Variable("y")
    /\ Rhs(expr) = Number(IntVal(2))
    /\ out = Ok(IntVal(2))

\* C7: Addition, Subtraction and Multiplication over operands that reduce to
\* ints a and b reduce to a + b, a - b and a * b, operands in the order given.
C7_ArithmeticInOrder ==
    (/\ op = "solve"
     /\ expr.k \in {"Addition", "Subtraction", "Multiplication"}
     /\ ReducesToInt(Lhs(expr))
     /\ ReducesToInt(Rhs(expr)))
        => LET a == Reduce(Lhs(expr)).val.v
               b == Reduce(Rhs(expr)).val.v
           IN out = Ok(IntVal(CASE expr.k = "Addition" -> a + b
                                [] expr.k = "Subtraction" -> a - b
                                [] expr.k = "Multiplication" -> a * b))

C7_Witness ==
    /\ op = "solve"
    /\ expr = Subtraction(IntVal(2), Multiplication(IntVal(-1), IntVal(1)))
    /\ out = Ok(IntVal(3))

\* C8: a Fraction over ints n and d, d nonzero, reduces to the quotient
\* truncated toward zero.
C8_IntegerFractionTruncates ==
    (/\ op = "solve"
     /\ expr.k = "Fraction"
     /\ ReducesToInt(Lhs(expr))
     /\ ReducesToInt(Rhs(expr))
     /\ Reduce(Rhs(expr)).val.v # 0)
        => LET n == Reduce(Lhs(expr)).val.v
               d == Reduce(Rhs(expr)).val.v
               q == out.val.v
           IN /\ out.st = "ok" /\ out.val.k = "int"
              /\ Abs(q) * Abs(d) <= Abs(n)
              /\ Abs(n) < (Abs(q) + 1) * Abs(d)
              /\ q > 0 => (n > 0) = (d > 0)
              /\ q < 0 => (n > 0) # (d > 0)

C8_Witness ==
    /\ op = "solve"
    /\ expr = Fraction(IntVal(-1), IntVal(2))
    /\ out = Ok(IntVal(0))

\* the application  a OP b  the last operator step evaluated
Applied == out.val

----------------------------------------------------------------------------
(* Properties of repeated calls, chaining and the individual node classes *)

RECURSIVE SymbolFree(_)
\* e is built without Variable and SubscriptedVariable
SymbolFree(e) ==
    /\ e.k \notin {"Variable", "SubscriptedVariable"}
    /\ \A i \in 1..Len(e.kids) : SymbolFree(e.kids[i])

\* C11: reduce(e) is deterministic for every e built without Variable and
\* SubscriptedVariable: the outcome of this invocation is the outcome of
\* every invocation of reduce on e, whatever calls were made in between.
C11_ReduceDeterministic ==
    (op = "reduce" /\ can_solve(expr) /\ SymbolFree(expr))
        => \A r \in Outcomes(Reduce(expr)) : r = out

\* C12: once a node is constructed, nothing done afterwards (reducing or
\* rendering it, deriving nodes from it by operators or chaining methods,
\* assigning to the fields of the object that was passed to its constructor)
\* changes what it renders to or what it reduces to.
C12_NodesImmutable ==
    [][op # "init" => /\ Latex(expr') = Latex(expr)
                      /\ Reduce(expr') = Reduce(expr)]_vars

C12_Witness ==
    /\ op = "latex"
    /\ expr = Addition(IntVal(2), ValuedVariable(IntVal(1), "x", FALSE))
    /\ held = <<ValuedVariable(IntVal(2), "y", FALSE)>>
    /\ out = Ok(Str("2 + 1"))

\* C13: every node n offers pow(x), log(base), ln() and sqrt(), which return
\* Power(n, x), Log(n, base), NaturalLog(n) and Root(n, 2): a new node whose
\* left (or only) operand is n itself.
C13_ChainingEverywhere ==
    /\ op = "pow" => out.st = "ok" /\ out.val.k = "Power" /\ Lhs(out.val) = expr
    /\ op = "log" => out.st = "ok" /\ out.val.k = "Log" /\ Lhs(out.val) = expr
    /\ op = "ln" => out = Ok(NaturalLog(expr))
    /\ op = "sqrt" => out = Ok(Root(expr, IntVal(2)))

\* C14: for all Numbers a, b, c the chained (a.pow(2) - 4 * b * c).sqrt()
\* renders to the same string as the explicitly constructed
\* Root(Subtraction(Power(a, 2), Multiplication(4, Multiplication(b, c))), 2).
C14_ChainedRendersAsExplicit ==
    (op = "latex" /\ expr.k = "Root")
        => LET a == held[1]
               b == held[2]
               c == held[3]
           IN out = Latex(Root(Subtraction(Power(a, IntVal(2)),
                                           Multiplication(IntVal(4),
                                                          Multiplication(b, c))),
                               IntVal(2)))

C14_Witness ==
    /\ op = "latex"
    /\ held = <<Number(IntVal(1)), Number(IntVal(2)), Number(IntVal(-1))>>
    /\ expr.k = "Root"
    /\ Lhs(Rhs(Lhs(expr))).k = "Multiplication"
    /\ out = Ok(Str("\\sqrt{{\\left(1\\right)}^{2} - 4 * 2 * -1}"))

\* x reduces, without failure, to a native number
ReducesToNumber(x) ==
    ReduceType(x) \in ArithKinds /\ Reduce(x).st = "ok"

\* C15: Log(val, base) reduces to ln(reduce(val)) / ln(reduce(base)): a base
\* that is itself a node is reduced to its value before the logarithm is
\* taken.
C15_LogReducesBase ==
    (/\ op = "solve"
     /\ expr.k = "Log"
     /\ ReducesToNumber(Lhs(expr))
     /\ ReducesToNumber(Rhs(expr)))
        => out = Ok(DOp("/", <<DOp("log", <<Reduce(Lhs(expr)).val>>),
                               DOp("log", <<Reduce(Rhs(expr)).val>>)>>))

\* C16: Sin(v), Cos(v) and Tan(v) reduce to sin, cos and tan of the reduced
\* operand, the three being distinct functions.
C16_TrigOwnFunction ==
    (/\ op = "solve"
     /\ expr.k \in {"Sin", "Cos", "Tan"}
     /\ ReducesToNumber(Lhs(expr)))
        => out = Ok(DOp(CASE expr.k = "Sin" -> "sin"
                          [] expr.k = "Cos" -> "cos"
                          [] expr.k = "Tan" -> "tan",
                        <<Reduce(Lhs(expr)).val>>))

\* C17: Power(b, e) renders as "{" open-paren render(b) close-paren "}^{"
\* render(e) "}" for every base b and exponent e, the delimiters being
\* there even around a single terminal.
C17_PowerGroupsBase ==
    (/\ op = "latex"
     /\ expr.k = "Power"
     /\ LatexOK(Lhs(expr))
     /\ LatexOK(Rhs(expr)))
        => out = Ok(Str("{\\left(" \o Show(Lhs(expr)) \o "\\right)}^{"
                        \o Show(Rhs(expr)) \o "}"))

C17_Witness ==
    /\ op = "latex"
    /\ expr = Power(IntVal(1), IntVal(2))
    /\ out = Ok(Str("{\\left(1\\right)}^{2}"))

\* the native number x is numerically equal to 2
IsTwo(x) == (x.k = "int" /\ x.v = 2) \/ (x.k = "double" /\ x.s = "lit" /\ x.v = 4)

\* x reduces, without failure, to a native int or to a double of known value
ReducesToKnown(x) ==
    /\ ReducesToNumber(x)
    /\ Reduce(x).val.k = "int" \/ Reduce(x).val.s = "lit"

\* C18: Root(v, k) renders as \sqrt{v} if and only if the reduced value of
\* the index k is numerically equal to 2 (so also for 2.0), and as
\* \sqrt[k]{v} for every other index.
C18_RootIndexOmission ==
    (/\ op = "latex"
     /\ expr.k = "Root"
     /\ LatexOK(Lhs(expr))
     /\ LatexOK(Rhs(expr))
     /\ ReducesToKnown(Rhs(expr)))
        => out = Ok(Str(IF IsTwo(Reduce(Rhs(expr)).val)
                        THEN "\\sqrt{" \o Show(Lhs(expr)) \o "}"
                        ELSE "\\sqrt[" \o Show(Rhs(expr)) \o "]{"
                                \o Show(Lhs(expr)) \o "}"))

\* the opening of the render of a Log, Sin, Cos or Tan node, up to its argument
FunctionHead(e) ==
    CASE e.k = "Log" -> "\\log_{" \o Show(Rhs(e)) \o "}{"
      [] e.k = "Sin" -> "\\sin{"
      [] e.k = "Cos" -> "\\cos{"
      [] e.k = "Tan" -> "\\tan{"

\* C19: Log, Sin, Cos and Tan render their argument enclosed in the grouping
\* delimiters whatever the argument is; Fraction renders \frac{num}{den} and
\* adds no delimiter around numerator or denominator.
C19_FunctionsGroupFractionNot ==
    (op = "latex" /\ \A i \in 1..Len(expr.kids) : LatexOK(expr.kids[i]))
        => /\ expr.k \in {"Log", "Sin", "Cos", "Tan"}
                => out = Ok(Str(FunctionHead(expr) \o "\\left("
                                \o Show(Lhs(expr)) \o "\\right)" \o "}"))
           /\ expr.k = "Fraction"
                => out = Ok(Str("\\frac{" \o Show(Lhs(expr)) \o "}{"
                                \o Show(Rhs(expr)) \o "}"))

C19_Witness ==
    /\ op = "latex"
    /\ expr = Log(IntVal(1), IntVal(2))
    /\ out = Ok(Str("\\log_{2}{\\left(1\\right)}"))

\* C20: an Equation renders as the equation-open marker, the tag
\* \label{eq:<label>} when the label is not empty and nothing when it is, a
\* line break, then render(lhs) " = " render(rhs) on one line, then the
\* equation-close marker on a line of its own.
C20_EquationBlock ==
    (/\ op = "latex"
     /\ expr.k = "Equation"
     /\ LatexOK(Lhs(expr))
     /\ LatexOK(Rhs(expr)))
        => out = Ok(Str("\\begin{equation}"
                        \o (IF expr.s = "" THEN ""
                            ELSE "\\label{eq:" \o expr.s \o "}")
                        \o "\n"
                        \o Show(Lhs(expr)) \o " = " \o Show(Rhs(expr)) \o "\n"
                        \o "\\end{equation}\n"))

C20_Witness ==
    /\ op = "latex"
    /\ expr = Equation("one", Variable("y"), Number(IntVal(2)))
    /\ out = Ok(Str("\\begin{equation}\\label{eq:one}\ny = 2\n\\end{equation}\n"))

----------------------------------------------------------------------------
(* Properties of AlignedEquation, ValuedVariable and the containers *)

\* the steps the AlignedEquation was constructed from
StepsGiven == Tail(held)

RECURSIVE Rows(_)
\* " & = " step, each step but the last followed by the row separator and
\* the last by a line break
Rows(steps) ==
    IF Len(steps) = 0 THEN ""
    ELSE " & = " \o Show(steps[1])
            \o (IF Len(steps) = 1 THEN "\n" ELSE "\\\\" \o "\n")
            \o Rows(Tail(steps))

\* C21: for every number n >= 1 of steps an AlignedEquation renders lhs
\* first, then each step as " & = " step in the order given, every step
\* but the last followed by the row separator and a line break, the last by a
\* line break only.
C21_AlignedRows ==
    (op = "latex" /\ expr.k = "AlignedEquation")
        => out = Ok(Str("\\begin{equation}\n\\begin{split}\n"
                        \o Show(held[1]) \o Rows(StepsGiven)
                        \o "\\end{split}\n\\end{equation}\n"))

C21_Witness ==
    /\ op = "latex"
    /\ held = <<Variable("y"), Addition(Variable("x"), IntVal(1)), IntVal(2), IntVal(-1)>>
    /\ out = Ok(Str("\\begin{equation}\n\\begin{split}\ny & = x + 1\\\\\n & = 2\\\\\n & = -1\n\\end{split}\n\\end{equation}\n"))

\* C22: an AlignedEquation is display-only.  Constructing it from any lhs and
\* steps succeeds, also when a step contains a Variable and when successive
\* steps are not equal; it has no solve(); its render is the string built at
\* construction.
C22_AlignedDisplayOnly ==
    /\ op = "init" => make_aligned_eqn(held[1], StepsGiven).st = "ok"
    /\ expr.k = "AlignedEquation" =>
          /\ ~can_solve(expr)
          /\ Solve(expr) = IllFormed
          /\ op = "latex" => out = Ok(Str(expr.s))

C22_Witness ==
    /\ op = "latex"
    /\ expr.k = "AlignedEquation"
    /\ held = <<Variable("y"), Variable("z"), IntVal(1), IntVal(2)>>
    /\ out = Ok(Str("\\begin{equation}\n\\begin{split}\ny & = z\\\\\n & = 1\\\\\n & = 2\n\\end{split}\n\\end{equation}\n"))

\* the ValuedVariable e with the other choice of show_name
OtherShowName(e) == [e EXCEPT !.v = 1 - e.v]

\* C23: a ValuedVariable renders as its name when show_name is true and as
\* the text of its value when show_name is false; it reduces to the
\* reduction of its value whatever show_name is; show_name is true when the
\* constructor is called without it (the variables named "d").
C23_ValuedVariable ==
    expr.k = "ValuedVariable" =>
        /\ op = "latex" =>
              out = Ok(Str(IF expr.v = 1 THEN expr.s ELSE Show(Lhs(expr))))
        /\ op \in {"solve", "reduce"} =>
              /\ out \in Outcomes(Reduce(Lhs(expr)))
              /\ Reduce(OtherShowName(expr)) = Reduce(expr)
        /\ (op = "latex" /\ expr.s = "d") => out = Ok(Str("d"))

C23_Witness ==
    /\ op = "latex"
    /\ expr = ValuedVariable(IntVal(-2), "x", FALSE)
    /\ out = Ok(Str("-2"))

\* the strings a container holds as content, in order
ContentOf(c) ==
    CASE c.k = "List"       -> c.items
      [] c.k = "Subsection" -> c.content
      [] c.k = "Section"    -> c.leading_content

\* C24: every renderable expression node (an object with latex(), such as
\* an Equation) can be streamed into a List, a Subsection and a Section,
\* and the container then holds exactly the node's rendered string as its
\* newest content entry.
C24_NodesIntoContainers ==
    \A i \in 1..3 :
        (/\ op = <<"List <<", "Subsection <<", "Section <<">>[i]
         /\ expr.k \in RenderableKinds)
            => /\ out = Ok(Void)
               /\ ContentOf(held[i]) # <<>>
               /\ ContentOf(held[i])[Len(ContentOf(held[i]))] = latex(expr)

\* the text s with one more tab at the start of each of its lines
RECURSIVE IndentFrom(_, _)
IndentFrom(s, n) ==
    IF n > Len(s) THEN ""
    ELSE (IF n = 1 \/ SubSeq(s, n - 1, n - 1) = "\n" THEN "\t" ELSE "")
         \o SubSeq(s, n, n) \o IndentFrom(s, n + 1)

Indented(s) == IndentFrom(s, 1)

\* what list.to_string() returns
Rendered(l) == List_to_string(l).val.s

\* the lines of Rendered(l) before its closing line
Unclosed(l) ==
    SubSeq(Rendered(l), 1, Len(Rendered(l)) - Len(l.Style.close \o "\n"))

\* C25: a rendered list emits its entries in the order they were inserted:
\* an insertion adds the new entry after every earlier entry and leaves those
\* as they were, a string as an \item line, a sublist as its complete list
\* block one tab deeper than the list it is in; an empty list renders as its
\* opening and closing line.
C25_ListOrder ==
    [][\A i \in 1..Len(held) :
          /\ op = "init"
                => Rendered(held[i]) = held[i].Style.open \o "\n"
                                       \o held[i].Style.close \o "\n"
          /\ held'[i] # held[i]
                => Rendered(held'[i]) =
                      Unclosed(held[i])
                      \o (IF expr'.k = "string"
                          THEN "\t\\item " \o expr'.s \o "\n"
                          ELSE Indented(Rendered(expr')))
                      \o held[i].Style.close \o "\n"
          /\ op' = "to_string" => out' = Ok(Str(Rendered(expr')))]_vars

C25_Witness ==
    /\ op = "to_string"
    /\ expr = held[1]
    /\ held[1].ordering = <<"String", "Sublist", "String">>
    /\ out = Ok(Str("\\begin{itemize}\n"
                    \o "\t\\item a\n"
                    \o "\t\\begin{itemize}\n"
                    \o "\t\t\\begin{itemize}\n"
                    \o "\t\t\\end{itemize}\n"
                    \o "\t\\end{itemize}\n"
                    \o "\t\\item b\n"
                    \o "\\end{itemize}\n"))

\* the number of tags t in an ordering
RECURSIVE Tagged(_, _)
Tagged(ordering, t) ==
    IF ordering = <<>> THEN 0
    ELSE (IF Head(ordering) = t THEN 1 ELSE 0) + Tagged(Tail(ordering), t)

\* the tags of l, and of the sublists in it, match what is stored
RECURSIVE Consistent(_)
Consistent(l) ==
    /\ Tagged(l.ordering, "String") = Len(l.items)
    /\ Tagged(l.ordering, "Sublist") = Len(l.sublists)
    /\ \A n \in 1..Len(l.sublists) : Consistent(l.sublists[n])

\* the length of a rendering at depth d that has a line for every stored
\* item and a block for every stored sublist
RECURSIVE FullLength(_, _)
RECURSIVE SumOver(_, _, _)
SumOver(n, F(_), acc) == IF n = 0 THEN acc ELSE SumOver(n - 1, F, acc + F(n))

FullLength(l, d) ==
    LET ItemLine(n) == d + Len("\\item ") + Len(l.items[n]) + 1
        SubBlock(n) == FullLength(l.sublists[n], d + 1)
    IN (d - 1) + Len(l.Style.open) + 1
       + SumOver(Len(l.items), ItemLine, 0)
       + SumOver(Len(l.sublists), SubBlock, 0)
       + (d - 1) + Len(l.Style.close) + 1

\* C26: in a List built from empty by <<, add and add_sublist the String tags
\* of the ordering are as many as the stored items and the Sublist tags as
\* many as the stored sublists; rendering it raises no "no items remaining"
\* or "no sublists remaining" error and emits every stored item and sublist.
C26_ListConsistent ==
    /\ \A i \in 1..Len(held) : Consistent(held[i])
    /\ op = "to_string"
          => /\ out.st = "ok"
             /\ Len(out.val.s) = FullLength(expr, 1)

C26_Witness ==
    /\ op = "to_string"
    /\ out.st = "ok"
    /\ expr.ordering = <<"Sublist", "String">>
    /\ expr.sublists[1].ordering = <<"String", "Sublist">>

\* C28: a List holds a copy of a sublist as it was when it was inserted:
\* whatever is appended afterwards to one of the caller's lists changes that
\* list only, neither the lists it was inserted into before nor the lists
\* that were inserted into it.
C28_SublistSnapshot ==
    [][\A i \in 1..Len(held) :
          held'[i] # held[i]
             => /\ \A j \in 1..Len(held) \ {i} :
                      /\ held'[j] = held[j]
                      /\ List_to_string(held'[j]) = List_to_string(held[j])
                /\ expr'.k = "List"
                      => held'[i].sublists = Append(held[i].sublists, expr')]_vars

\* the parent holds an empty sublist although neither of the caller's other
\* lists is empty any more
C28_Witness ==
    /\ op = "to_string"
    /\ expr = held[1]
    /\ held[1].ordering = <<"Sublist", "String">>
    /\ held[1].sublists = <<List(Unordered)>>
    /\ held[2].items = <<"a">>
    /\ held[3].items = <<"b">>
    /\ out = Ok(Str("\\begin{itemize}\n"
                    \o "\t\\begin{itemize}\n"
                    \o "\t\\end{itemize}\n"
                    \o "\t\\item b\n"
                    \o "\\end{itemize}\n"))

\* the lines of a rendered document that come from its title, its type and
\* its table of contents, before and after the imports
DocumentOpening(d) ==
    "\\documentclass[12pt]{" \o d.DocType.header \o "}\n\n"
    \o "\\title{" \o d.title
    \o (IF d.DocType.can_subtitle /\ d.subtitle # ""
        THEN " \\\\ " \o d.subtitle ELSE "")
    \o "}\n\n\n"

DocumentBegin(d) ==
    "\n\n\\begin{document}\n\n\\maketitle\n\n"
    \o (IF d.use_toc THEN "\\tableofcontents\n\n\\newpage\n\n" ELSE "")
    \o "\n\n"

\* C27: a rendered document has the imports in call order in its preamble,
\* then all leading content in insertion order, then all sections in
\* insertion order, however the calls were interleaved: every call appends
\* to the entries of its own kind, and only to those.
C27_DocumentOrder ==
    [][/\ op' = "use"
          => /\ \E import \in Imports :
                    expr'.imports = Append(expr.imports, import)
             /\ expr'.leading_contents = expr.leading_contents
             /\ expr'.sections = expr.sections
       /\ op' \in {"<<", "write_leading"}
          => /\ \E content \in ItemStrings :
                    expr'.leading_contents
                        = Append(expr.leading_contents, content)
             /\ expr'.imports = expr.imports
             /\ expr'.sections = expr.sections
       /\ op' = "<< section"
          => /\ \E i \in 1..Len(held) :
                    expr'.sections = Append(expr.sections, held[i])
             /\ expr'.imports = expr.imports
             /\ expr'.leading_contents = expr.leading_contents
       /\ op' = "to_string"
          => out' = Ok(Str(
                DocumentOpening(expr)
                \o EachThen([n \in 1..Len(expr.imports) |->
                                "\\usepackage{" \o expr.imports[n] \o "}\n"], "")
                \o DocumentBegin(expr)
                \o EachThen(expr.leading_contents, "\n\n")
                \o EachThen([n \in 1..Len(expr.sections) |->
                                Section_latex(expr.sections[n])], "\n\n")
                \o "\\end{document}\n"))]_vars

\* the leading content "a" was written last, after the section was inserted
C27_Witness ==
    /\ op = "<<"
    /\ expr.DocType = Article
    /\ expr.imports = <<"amsmath">>
    /\ expr.sections = <<Section("Two", TRUE)>>
    /\ expr.leading_contents = <<"a">>
    /\ to_string(expr)
         = Ok(Str("\\documentclass[12pt]{article}\n\n\\title{Title}\n\n\n"
                  \o "\\usepackage{amsmath}\n\n\n\\begin{document}\n\n"
                  \o "\\maketitle\n\n\n\na\n\n\n\n\\newpage\n\n"
                  \o "\\section{Two}\n\n\n\n\\end{document}\n"))

\* C29: Addition, Subtraction and Multiplication render as the left operand,
\* " + ", " - " or " * ", the right operand, with no grouping delimiter
\* around an operand: for terminals a, b and c, Multiplication(a,
\* Addition(b, c)) and Addition(Multiplication(a, b), c) both render as
\* "a * b + c"; the delimiters appear only where a Paren node is.
C29_NoImplicitGrouping ==
    op = "latex"
        => LET a == Show(held[1])
               b == Show(held[2])
               c == Show(held[3])
           IN /\ expr.k = "Addition"
                    => out = Ok(Str(Show(Lhs(expr)) \o " + " \o Show(Rhs(expr))))
              /\ expr.k = "Subtraction"
                    => out = Ok(Str(Show(Lhs(expr)) \o " - " \o Show(Rhs(expr))))
              /\ expr.k = "Multiplication"
                    => out = Ok(Str(Show(Lhs(expr)) \o " * " \o Show(Rhs(expr))))
              /\ expr \in {Multiplication(held[1], Addition(held[2], held[3])),
                           Addition(Multiplication(held[1], held[2]), held[3])}
                    => out = Ok(Str(a \o " * " \o b \o " + " \o c))
              /\ expr \in {Multiplication(held[1], Subtraction(held[2], held[3])),
                           Subtraction(Multiplication(held[1], held[2]), held[3])}
                    => out = Ok(Str(a \o " * " \o b \o " - " \o c))
              /\ expr = Multiplication(held[1], Paren(Addition(held[2], held[3])))
                    => out = Ok(Str(a \o " * \\left(" \o b \o " + " \o c
                                    \o "\\right)"))

\* 2 * (1 + 1) reduces to 4 and (2 * 1) + 1 to 3; both render as 2 * 1 + 1
C29_Witness ==
    /\ op = "latex"
    /\ expr = Multiplication(IntVal(2), Addition(IntVal(1), IntVal(1)))
    /\ out = Ok(Str("2 * 1 + 1"))
    /\ Solve(expr) = Ok(IntVal(4))
    /\ Solve(Addition(Multiplication(IntVal(2), IntVal(1)), IntVal(1)))
         = Ok(IntVal(3))
    /\ Latex(Addition(Multiplication(IntVal(2), IntVal(1)), IntVal(1))) = out

====
